---- MODULE Spec2Model ----
(***************************************************************************)
(* Model of the idle-detection agents of gpumon-oci:                       *)
(*   src/cpumon.py  (CPU + network placeholder variant)                    *)
(*   src/gpumon.py  (CPU + GPU + OCI network variant)                      *)
(* A behaviour is one run of one of the two programs: Init picks the       *)
(* variant, Startup models main() up to the loop, and every later step is  *)
(* one whole iteration of the `while True` loop.                           *)
(***************************************************************************)
EXTENDS Integers, Sequences, FiniteSets, TLC

(***************************************************************************)
(* Bounds of the model.                                                    *)
(***************************************************************************)
\* psutil.cpu_count() of the modelled host
NumCores == 2
\* largest nvmlDeviceGetCount() of the modelled host
MaxDevices == 2
\* loop iterations explored
MaxTicks == 3
\* the most datapoints a monitoring response carries
MaxPoints == 3
\* CACHE_DURATION and SLEEP_INTERVAL are 300 s and 10 s in the source
\* (cpumon.py:17-18, gpumon.py:39,41); they are scaled down here so that the
\* window trimming of cpumon.py:164-166 happens within MaxTicks iterations.
CACHE_DURATION == 4
SLEEP_INTERVAL == 2

(***************************************************************************)
(* Program constants.                                                      *)
(***************************************************************************)
THRESHOLD_PERCENTAGE_DEFAULT == 10
THRESHOLD_PERCENTAGE_SEVERE == 40
NETWORK_THRESHOLD_DEFAULT == 10000
NETWORK_THRESHOLD_SEVERE == 200000
RESTART_BACKOFF_DEFAULT == 7200
RESTART_BACKOFF_SEVERE == 600
GPU_THRESHOLD == 10
\* cpumon.py:178, the placeholder network reading
NETWORK_PLACEHOLDER == 50
\* cpumon.py:155, network_last before the first iteration
NETWORK_LAST_INITIAL == 99

Cores == 1..NumCores

Max(a, b) == IF a >= b THEN a ELSE b

RECURSIVE SeqSum(_)
SeqSum(s) == IF s = <<>> THEN 0 ELSE Head(s) + SeqSum(Tail(s))

\* Python's c[-n:] : the last n elements; c[-0:] is the whole list.
LastN(c, n) ==
    IF n = 0 \/ Len(c) <= n THEN c ELSE SubSeq(c, Len(c) - n + 1, Len(c))

\* Python's round(num/den) on a float: round half to even. den = 0 stands for
\* the literal 0.0 of gpumon.py:403.
PyRound(num, den) ==
    IF den = 0 THEN 0
    ELSE LET q == num \div den
             r == num % den
         IN  IF 2 * r < den THEN q
             ELSE IF 2 * r > den THEN q + 1
             ELSE IF q % 2 = 0 THEN q ELSE q + 1

(***************************************************************************)
(* Pure pieces of the loop body.                                           *)
(***************************************************************************)
\* cpumon.py:164, the number of samples a core's window keeps
window_samples == Max(1, CACHE_DURATION \div SLEEP_INTERVAL)

\* gpumon.py:384, int(CACHE_DURATION/1)
gpumon_window_samples == CACHE_DURATION \div 1

WindowOf(v) == IF v = "cpumon" THEN window_samples ELSE gpumon_window_samples

\* append one sample per core, then keep the last n of every core
push_samples(cache, samples, n) ==
    [i \in DOMAIN cache |->
        LastN(IF i \in DOMAIN samples THEN Append(cache[i], samples[i])
              ELSE cache[i], n)]

\* calc_avg_core_utilization dividing by the window's capacity instead of
\* the number of samples retained
calc_avg_over_capacity(cache) ==
    [i \in DOMAIN cache |->
        [num |-> SeqSum(cache[i]), den |-> window_samples]]

\* An average is kept exactly, as numerator and denominator; an empty window
\* gives the literal 0.
calc_avg_core_utilization(cache) ==
    [i \in DOMAIN cache |->
        IF Len(cache[i]) > 0
        THEN [num |-> SeqSum(cache[i]), den |-> Len(cache[i])]
        ELSE [num |-> 0, den |-> 1]]

\* any_above with the comparison u >= THRESHOLD
any_above_or_equal(avgs, thr) ==
    \E i \in DOMAIN avgs : avgs[i].num >= thr * avgs[i].den

\* any(u > THRESHOLD for u in avg_util)
any_above(avgs, thr) ==
    \E i \in DOMAIN avgs : avgs[i].num > thr * avgs[i].den

\* getUtilization: a failed driver read is replaced by the Dummy zero reading.
getUtilization(reading) == IF reading.ok THEN reading.gpu ELSE 0

RECURSIVE sum_gpu_util(_, _)
\* total_gpu_util after the first k devices have been read
sum_gpu_util(readings, k) ==
    IF k = 0 THEN 0
    ELSE sum_gpu_util(readings, k - 1) + getUtilization(readings[k])

\* gpu_idle with a rounding that takes a tie to the integer above
gpu_idle_half_up(total, count) ==
    (IF count = 0 THEN 0 ELSE (2 * total + count) \div (2 * count))
        <= GPU_THRESHOLD

\* round(average_gpu_util) <= GPU_THRESHOLD, average_gpu_util being
\* total/deviceCount, or 0.0 without devices
gpu_idle(total, count) == PyRound(total, count) <= GPU_THRESHOLD

\* The outcome of mon_query.summarize_metrics_data(...). main() binds
\* mon_query to the whole tuple make_oci_clients returns, so the attribute
\* lookup itself raises AttributeError on every call.
SummarizeOutcomes(client, thr) ==
    IF client = "tuple"
    THEN {[kind |-> "AttributeError", sum |-> 0]}
    ELSE {[kind |-> "ServiceError", sum |-> 0],
          [kind |-> "UnexpectedShape", sum |-> 0],
          [kind |-> "data", sum |-> thr],
          [kind |-> "data", sum |-> thr + 1]}

\* The aggregated datapoints the monitoring service returns: per-minute
\* packet counts, or a datapoint whose value is None.
Datapoints ==
    {[present |-> FALSE, value |-> 0], [present |-> TRUE, value |-> 0],
     [present |-> TRUE, value |-> 90], [present |-> TRUE, value |-> 100]}

RECURSIVE sum_datapoints(_)
\* `if dp.value is not None: total += float(dp.value)` over the datapoints
sum_datapoints(points) ==
    IF points = <<>> THEN 0
    ELSE LET dp == points[Len(points)]
         IN  sum_datapoints(SubSeq(points, 1, Len(points) - 1))
                 + (IF dp.present THEN dp.value ELSE 0)

\* oci_sum_packets_last_5m without the `if not vnic_ids` return
oci_sum_packets_unguarded(vnics, outcome) ==
    IF outcome.kind = "data" THEN outcome.sum ELSE 0

\* oci_sum_packets_last_5m: 0 without VNICs; a query that raises or has an
\* unexpected shape adds nothing to the total.
oci_sum_packets_last_5m(vnics, outcome) ==
    IF ~vnics THEN 0
    ELSE IF outcome.kind = "data" THEN outcome.sum ELSE 0

\* the reading was not obtained from the monitoring service
network_unavailable(vnics, outcome) ==
    ~vnics \/ outcome.kind # "data"

\* the latch as a toggle: a reading under the threshold flips it
trip_network_toggle(tripped, net, thr) ==
    IF net <= thr THEN 1 - tripped ELSE tripped

\* the network_tripped latch
trip_network(tripped, net, thr) ==
    IF tripped = 0 /\ net <= thr THEN 1 ELSE tripped

\* PilotLight without the `if alarm_pilot_light == 0` guard: every idle
\* iteration builds the ON message again.
PilotLight_renotify(alarm, secs, backoff, idle) ==
    IF secs >= backoff
    THEN IF idle THEN [alarm |-> 1, note |-> "ON"]
         ELSE IF alarm = 1 THEN [alarm |-> 0, note |-> "OFF"]
              ELSE [alarm |-> alarm, note |-> "none"]
    ELSE [alarm |-> 0, note |-> "none"]

\* PilotLight with the gate `seconds > RESTART_BACKOFF`.
PilotLight_late(alarm, secs, backoff, idle) ==
    IF secs > backoff
    THEN IF idle
         THEN IF alarm = 0 THEN [alarm |-> 1, note |-> "ON"]
              ELSE [alarm |-> alarm, note |-> "none"]
         ELSE IF alarm = 1 THEN [alarm |-> 0, note |-> "OFF"]
              ELSE [alarm |-> alarm, note |-> "none"]
    ELSE [alarm |-> 0, note |-> "none"]

\* PilotLight without the else branch of the verdict: a busy iteration
\* leaves the light as it was.
PilotLight_sticky(alarm, secs, backoff, idle) ==
    IF secs >= backoff
    THEN IF idle /\ alarm = 0 THEN [alarm |-> 1, note |-> "ON"]
         ELSE [alarm |-> alarm, note |-> "none"]
    ELSE [alarm |-> 0, note |-> "none"]

\* PilotLight turning a lit light OFF without building the OFF message
PilotLight_silent_off(alarm, secs, backoff, idle) ==
    IF secs >= backoff
    THEN IF idle
         THEN IF alarm = 0 THEN [alarm |-> 1, note |-> "ON"]
              ELSE [alarm |-> alarm, note |-> "none"]
         ELSE [alarm |-> 0, note |-> "none"]
    ELSE [alarm |-> 0, note |-> "none"]

\* The pilot-light block: the new alarm_pilot_light and the message built
\* for it ("ON", "OFF") or "none".
PilotLight(alarm, secs, backoff, idle) ==
    IF secs >= backoff
    THEN IF idle
         THEN IF alarm = 0 THEN [alarm |-> 1, note |-> "ON"]
              ELSE [alarm |-> alarm, note |-> "none"]
         ELSE IF alarm = 1 THEN [alarm |-> 0, note |-> "OFF"]
              ELSE [alarm |-> alarm, note |-> "none"]
    ELSE [alarm |-> 0, note |-> "none"]

\* latch_and_pilot with the idle verdict gated by the latch as the iteration
\* found it
latch_and_pilot_gated(alarm, tripped, net, thr, secs, backoff, idle) ==
    [tripped |-> trip_network(tripped, net, thr),
     pl |-> PilotLight(alarm, secs, backoff, idle /\ tripped = 1)]

\* The latch update followed by the pilot-light block (cpumon.py:179-196,
\* gpumon.py:409-430): network_tripped is written by the first and not read
\* by the second.
latch_and_pilot(alarm, tripped, net, thr, secs, backoff, idle) ==
    [tripped |-> trip_network(tripped, net, thr),
     pl |-> PilotLight(alarm, secs, backoff, idle)]

\* send_slack posting a second time when the first post did not succeed.
send_slack_retry(webhook_url, http) ==
    IF ~webhook_url THEN [posts |-> 0, outcome |-> "no_webhook"]
    ELSE [posts |-> IF http = "200" THEN 1 ELSE 2, outcome |-> http]

\* send_slack: one requests.post; a non-200 answer and an exception are both
\* printed and swallowed. cpumon's returns at once without a webhook.
send_slack(webhook_url, http) ==
    IF ~webhook_url THEN [posts |-> 0, outcome |-> "no_webhook"]
    ELSE [posts |-> 1, outcome |-> http]

HttpOutcomes == {"200", "non200", "exception"}

(***************************************************************************)
(* State.                                                                  *)
(***************************************************************************)
VARIABLES
    variant,                \* which program runs: "cpumon" or "gpumon"
    pc,                     \* "start", "loop" (between iterations), "dead"
    raised,                 \* the exception that left main(), or "none"
    ticks,                  \* loop iterations started
    \* bound once in main() before the loop
    policy,                 \* the GPUMON_POLICY value main() resolved, or "none"
    RESTART_BACKOFF, THRESHOLD_PERCENTAGE, NETWORK_THRESHOLD,
    team_webhook,           \* a webhook URL is configured
    mon_query,              \* what main() holds as the monitoring client
    vnic_ids,               \* get_vnic_ocids() returned a non-empty list
    nvml,                   \* driver handle: "unloaded", "initialised", "shutdown"
    deviceCount,
    \* the loop's variables
    alarm_pilot_light, network_tripped, cpu_util_tripped,
    core_utilization_cache, per_core, per_core_bound, avg_util,
    seconds, network, total_gpu_util,
    \* what the iteration did to the outside world
    notified,               \* directions of the transition messages built so far
    posts,                  \* requests.post calls made so far
    delivery,               \* this iteration's send_slack outcome, or "none"
    log_lines,              \* log lines this iteration appended
    \* what the outside world did to the iteration
    cpu_failed,             \* get_per_core_cpu_utilization raised
    gpu_failed,             \* a utilization read raised and was replaced by zero
    net_failed,             \* no network reading was obtained
    \* the monitoring service's answer to a query made with a working client
    response,               \* "data", "ServiceError", "UnexpectedShape" or "none"
    datapoints,             \* the datapoints of a "data" response
    \* a second run of the same program, given the same inputs in every step,
    \* whose latch was 1 instead of 0 when the loop was entered
    shadow_tripped, shadow_alarm, shadow_notified,
    \* gpumon's loop variables when it is run beside cpumon on the same inputs
    twin

config == <<policy, RESTART_BACKOFF, THRESHOLD_PERCENTAGE, NETWORK_THRESHOLD,
            team_webhook, mon_query, vnic_ids, deviceCount>>
cpu_state == <<cpu_util_tripped, core_utilization_cache, per_core,
               per_core_bound, avg_util, cpu_failed>>
eval_state == <<alarm_pilot_light, network_tripped, seconds, network,
                net_failed, notified, posts, delivery>>
query_input == <<response, datapoints>>
shadow == <<shadow_tripped, shadow_alarm, shadow_notified>>
vars == <<variant, pc, raised, ticks, config, nvml, cpu_state, eval_state,
          total_gpu_util, gpu_failed, log_lines, query_input, shadow, twin>>

\* The variables as they are before main() has bound any of them.
Unbound ==
    /\ raised = "none"
    /\ ticks = 0
    /\ policy = "none"
    /\ RESTART_BACKOFF = 0
    /\ THRESHOLD_PERCENTAGE = 0
    /\ NETWORK_THRESHOLD = 0
    /\ team_webhook = FALSE
    /\ mon_query = "none"
    /\ nvml = "unloaded"
    /\ deviceCount = 0
    /\ alarm_pilot_light = 0
    /\ network_tripped = 0
    /\ cpu_util_tripped = FALSE
    /\ core_utilization_cache = [i \in Cores |-> <<>>]
    /\ per_core = <<>>
    /\ per_core_bound = FALSE
    /\ avg_util = <<>>
    /\ seconds = 0
    /\ network = 0
    /\ total_gpu_util = 0
    /\ notified = <<>>
    /\ posts = 0
    /\ delivery = "none"
    /\ log_lines = 0
    /\ cpu_failed = FALSE
    /\ gpu_failed = FALSE
    /\ net_failed = FALSE
    /\ shadow_tripped = 1
    /\ shadow_alarm = 0
    /\ shadow_notified = <<>>
    /\ twin = [cache |-> [i \in Cores |-> <<>>], alarm |-> 0, tripped |-> 0,
               notified |-> <<>>]

Init ==
    /\ variant \in {"cpumon", "gpumon"}
    /\ pc = "start"
    /\ vnic_ids = FALSE
    /\ response = "none"
    /\ datapoints = <<>>
    /\ Unbound

(***************************************************************************)
(* main() up to the loop.                                                  *)
(***************************************************************************)
\* What the metadata service gives for freeformTags.GPUMON_POLICY:
\* "unavailable" is a failed request, "absent" an instance without the tag.
PolicyTags == {"unavailable", "absent", "STANDARD", "SEVERE", "OTHER"}

\* freeform.get('GPUMON_POLICY', 'STANDARD')
policy_of(tag) == IF tag \in {"unavailable", "absent"} THEN "STANDARD" ELSE tag

\* backoff_of selecting the SEVERE value for every policy but STANDARD
backoff_of_unless_standard(pol) ==
    IF pol = "STANDARD" THEN RESTART_BACKOFF_DEFAULT ELSE RESTART_BACKOFF_SEVERE

backoff_of(pol) ==
    IF pol # "SEVERE" THEN RESTART_BACKOFF_DEFAULT ELSE RESTART_BACKOFF_SEVERE
cpu_threshold_of(pol) ==
    IF pol # "SEVERE" THEN THRESHOLD_PERCENTAGE_DEFAULT
    ELSE THRESHOLD_PERCENTAGE_SEVERE
network_threshold_of(pol) ==
    IF pol # "SEVERE" THEN NETWORK_THRESHOLD_DEFAULT
    ELSE NETWORK_THRESHOLD_SEVERE

BindPolicy(tag) ==
    /\ policy' = policy_of(tag)
    /\ RESTART_BACKOFF' = backoff_of(policy_of(tag))
    /\ THRESHOLD_PERCENTAGE' = cpu_threshold_of(policy_of(tag))
    /\ NETWORK_THRESHOLD' = network_threshold_of(policy_of(tag))

\* cpumon.py main(), lines 119-155: a failed metadata request gives {} and
\* the defaults.
StartCpumon ==
    /\ variant = "cpumon"
    /\ pc = "start"
    /\ \E tag \in PolicyTags, webhook \in BOOLEAN :
        /\ BindPolicy(tag)
        /\ team_webhook' = webhook
    /\ network' = NETWORK_LAST_INITIAL
    /\ pc' = "loop"
    /\ UNCHANGED <<variant, raised, ticks, mon_query, vnic_ids, deviceCount,
                   nvml, cpu_state, alarm_pilot_light, network_tripped,
                   seconds, net_failed, notified, posts, delivery,
                   total_gpu_util, gpu_failed, log_lines, query_input, shadow, twin>>

\* The exceptions that leave gpumon.py main() before its try block:
\* imds() raising in get_instance_identity (318), the instance-principal
\* signer raising in make_oci_clients (330), nvmlInit being an undefined
\* name when no NVML binding was imported (362), nvmlInit and
\* nvmlDeviceGetCount raising NVMLError (362, 363).
StartupFaults ==
    {"none", "SignerError", "NameError", "NVMLError_init", "NVMLError_count"}

\* gpumon.py main(), lines 309-375.
StartGpumon ==
    /\ variant = "gpumon"
    /\ pc = "start"
    /\ \E tag \in PolicyTags, fault \in StartupFaults, webhook \in BOOLEAN,
          vnics \in BOOLEAN, count \in 0..MaxDevices :
        IF tag = "unavailable" \/ fault = "SignerError"
        THEN /\ pc' = "dead"
             /\ raised' = IF tag = "unavailable" THEN "RequestException"
                          ELSE fault
             /\ UNCHANGED <<config, nvml>>
        ELSE /\ BindPolicy(tag)
             /\ team_webhook' = webhook
             /\ mon_query' = "tuple"
             /\ IF fault = "none"
                THEN /\ pc' = "loop"
                     /\ raised' = "none"
                     /\ nvml' = "initialised"
                     /\ deviceCount' = count
                     /\ vnic_ids' = vnics
                ELSE /\ pc' = "dead"
                     /\ raised' = fault
                     /\ nvml' = IF fault = "NVMLError_count"
                                THEN "initialised" ELSE "unloaded"
                     /\ UNCHANGED <<deviceCount, vnic_ids>>
    /\ UNCHANGED <<variant, ticks, cpu_state, eval_state, total_gpu_util,
                   gpu_failed, log_lines, query_input, shadow, twin>>

(***************************************************************************)
(* Inputs of one loop iteration.                                           *)
(***************************************************************************)
\* psutil.cpu_percent(percpu=True): every core just under the threshold,
\* but for the cores of S, which are just over it.
CpuVectors(thr) ==
    {[c \in Cores |-> IF c \in S THEN thr + 2 ELSE thr - 2] :
        S \in {{}, {1}, {NumCores}}}

CpuOutcomes(thr) ==
    {[ok |-> FALSE, samples |-> <<>>]} \cup
    {[ok |-> TRUE, samples |-> v] : v \in CpuVectors(thr)}

\* nvmlDeviceGetUtilizationRates of one device: a reading at the threshold,
\* one just over it, or NVMLError.
AtThreshold == [ok |-> TRUE, gpu |-> GPU_THRESHOLD]
OverThreshold == [ok |-> TRUE, gpu |-> GPU_THRESHOLD + 1]
ReadError == [ok |-> FALSE, gpu |-> 0]

\* The readings of the first device and of the others.
GpuPairs ==
    {<<AtThreshold, AtThreshold>>, <<AtThreshold, OverThreshold>>,
     <<OverThreshold, OverThreshold>>, <<ReadError, AtThreshold>>,
     <<ReadError, ReadError>>}

GpuVectors(d) ==
    {[i \in 1..d |-> IF i = 1 THEN p[1] ELSE p[2]] : p \in GpuPairs}

\* nvmlDeviceGetHandleByIndex raising NVMLError, which is not caught: for the
\* first device of the sampling loop (398), or for the last device of the
\* logging loop (434), after the lines of the devices before it were written.
HandleFaults(d) ==
    IF d = 0 THEN {[at |-> "none", dev |-> 0]}
    ELSE {[at |-> "none", dev |-> 0], [at |-> "sample", dev |-> 1],
          [at |-> "log", dev |-> d]}

\* round(time.time() - psutil.boot_time()): wall-clock based, so it may also
\* go down from one iteration to the next.
Elapsed(backoff) == {backoff - 1, backoff}

\* The CPU block of an iteration (cpumon.py:159-172, gpumon.py:379-392).
\* When the sampler raises, cpumon leaves per_core as it was (unbound on the
\* first iteration) and gpumon sets it to [].
cpu_block(v, cache, old_per_core, old_bound, out, thr) ==
    IF out.ok
    THEN LET c == push_samples(cache, out.samples, WindowOf(v))
             a == calc_avg_core_utilization(c)
         IN  [cache |-> c, avg |-> a, tripped |-> any_above(a, thr),
              per_core |-> out.samples, bound |-> TRUE, failed |-> FALSE]
    ELSE [cache |-> cache, avg |-> <<>>, tripped |-> FALSE,
          per_core |-> IF v = "cpumon" THEN old_per_core ELSE <<>>,
          bound |-> IF v = "cpumon" THEN old_bound ELSE TRUE,
          failed |-> TRUE]

SetCpu(cpu) ==
    /\ core_utilization_cache' = cpu.cache
    /\ avg_util' = cpu.avg
    /\ cpu_util_tripped' = cpu.tripped
    /\ per_core' = cpu.per_core
    /\ per_core_bound' = cpu.bound
    /\ cpu_failed' = cpu.failed

\* The pilot-light block with its notification (cpumon.py:182-196,
\* gpumon.py:413-430).
SetPilot(pl, sl) ==
    /\ alarm_pilot_light' = pl.alarm
    /\ notified' = IF pl.note = "none" THEN notified
                   ELSE Append(notified, pl.note)
    /\ posts' = posts + sl.posts
    /\ delivery' = sl.outcome

\* the same block in the second run
SetShadow(lp) ==
    /\ shadow_tripped' = lp.tripped
    /\ shadow_alarm' = lp.pl.alarm
    /\ shadow_notified' = IF lp.pl.note = "none" THEN shadow_notified
                          ELSE Append(shadow_notified, lp.pl.note)

Slack(pl, http) ==
    IF pl.note = "none" THEN [posts |-> 0, outcome |-> "none"]
    ELSE send_slack(team_webhook, http)

HttpChoices(pl) ==
    IF pl.note = "none" \/ ~team_webhook THEN {"200"} ELSE HttpOutcomes

(***************************************************************************)
(* One iteration of cpumon.py's loop, lines 158-201.                       *)
(***************************************************************************)
\* outs: what the CPU sampler may answer; els: the elapsed times
IterateCpumon(outs, els) ==
    /\ variant = "cpumon"
    /\ pc = "loop"
    /\ ticks < MaxTicks
    /\ \E out \in outs, el \in els :
        LET cpu == cpu_block(variant, core_utilization_cache, per_core,
                             per_core_bound, out, THRESHOLD_PERCENTAGE)
            net == NETWORK_PLACEHOLDER
            idle == ~cpu.tripped /\ net <= NETWORK_THRESHOLD
            lp == latch_and_pilot(alarm_pilot_light, network_tripped, net,
                                  NETWORK_THRESHOLD, el, RESTART_BACKOFF, idle)
            pl == lp.pl
        IN  \E http \in HttpChoices(pl) :
            /\ SetCpu(cpu)
            /\ seconds' = el
            /\ network' = net
            /\ net_failed' = FALSE
            /\ network_tripped' = lp.tripped
            /\ SetPilot(pl, Slack(pl, http))
            /\ SetShadow(latch_and_pilot(shadow_alarm, shadow_tripped, net,
                                         NETWORK_THRESHOLD, el,
                                         RESTART_BACKOFF, idle))
            \* log_results(..., per_core, ...): the argument is read first
            /\ IF cpu.bound
               THEN /\ log_lines' = 1
                    /\ pc' = "loop"
                    /\ raised' = "none"
               ELSE /\ log_lines' = 0
                    /\ pc' = "dead"
                    /\ raised' = "UnboundLocalError"
    /\ ticks' = ticks + 1
    /\ UNCHANGED <<variant, config, nvml, total_gpu_util, gpu_failed,
                   query_input>>

TickCpumon ==
    /\ IterateCpumon(CpuOutcomes(THRESHOLD_PERCENTAGE),
                     Elapsed(RESTART_BACKOFF))
    /\ UNCHANGED twin

(***************************************************************************)
(* One iteration of gpumon.py's loop, lines 377-481, with the finally      *)
(* clause of line 483 when an exception leaves it.                         *)
(***************************************************************************)
\* gpumon.py:414, the condition under which the light may be turned ON
gpumon_idle(total, count, cpu_tripped, net, thr) ==
    /\ gpu_idle(total, count)
    /\ ~cpu_tripped
    /\ net <= thr

\* outs: what the CPU sampler may answer; gpus: the readings of the devices;
\* hfaults: where a handle lookup may raise; els: the elapsed times
IterateGpumon(outs, gpus, hfaults, els) ==
    /\ variant = "gpumon"
    /\ pc = "loop"
    /\ ticks < MaxTicks
    /\ \E out \in outs, readings \in gpus, hfault \in hfaults :
        LET cpu == cpu_block(variant, core_utilization_cache, per_core,
                             per_core_bound, out, THRESHOLD_PERCENTAGE)
            read == IF hfault.at = "sample" THEN hfault.dev - 1
                    ELSE deviceCount
            total == sum_gpu_util(readings, read)
        IN  /\ SetCpu(cpu)
            /\ total_gpu_util' = total
            /\ gpu_failed' = \E i \in 1..read : ~readings[i].ok
            /\ IF hfault.at = "sample"
               THEN /\ pc' = "dead"
                    /\ raised' = "NVMLError_sample"
                    /\ nvml' = "shutdown"
                    /\ log_lines' = 0
                    /\ UNCHANGED <<eval_state, shadow>>
               ELSE \E el \in els,
                       resp \in SummarizeOutcomes(mon_query, NETWORK_THRESHOLD) :
                    LET net == oci_sum_packets_last_5m(vnic_ids, resp)
                        idle == gpumon_idle(total, deviceCount, cpu.tripped,
                                            net, NETWORK_THRESHOLD)
                        lp == latch_and_pilot(alarm_pilot_light,
                                              network_tripped, net,
                                              NETWORK_THRESHOLD, el,
                                              RESTART_BACKOFF, idle)
                        pl == lp.pl
                        logged == IF hfault.at = "log" THEN hfault.dev - 1
                                  ELSE deviceCount
                    IN  \E http \in HttpChoices(pl) :
                        /\ seconds' = el
                        /\ network' = net
                        /\ net_failed' = network_unavailable(vnic_ids, resp)
                        /\ network_tripped' = lp.tripped
                        \* `if team_webhook:` guards the call, as the first
                        \* line of cpumon's send_slack does
                        /\ SetPilot(pl, Slack(pl, http))
                        /\ SetShadow(latch_and_pilot(shadow_alarm,
                                         shadow_tripped, net,
                                         NETWORK_THRESHOLD, el,
                                         RESTART_BACKOFF, idle))
                        /\ log_lines' = logged
                        /\ IF hfault.at = "log"
                           THEN /\ pc' = "dead"
                                /\ raised' = "NVMLError_log"
                                /\ nvml' = "shutdown"
                           ELSE /\ pc' = "loop"
                                /\ raised' = "none"
                                /\ nvml' = nvml
    /\ ticks' = ticks + 1
    /\ UNCHANGED <<variant, config, query_input>>

TickGpumon ==
    /\ IterateGpumon(CpuOutcomes(THRESHOLD_PERCENTAGE),
                     GpuVectors(deviceCount), HandleFaults(deviceCount),
                     Elapsed(RESTART_BACKOFF))
    /\ UNCHANGED twin

Next == StartCpumon \/ StartGpumon \/ TickCpumon \/ TickGpumon

Spec == Init /\ [][Next]_vars

(***************************************************************************)
(* oci_sum_packets_last_5m on its own: called once, with a monitoring       *)
(* client that answers, on every response of at most MaxPoints datapoints.  *)
(***************************************************************************)
Responses == {"data", "ServiceError", "UnexpectedShape"}

SeqsUpTo(S, n) == UNION {[1..k -> S] : k \in 0..n}

InitQuery ==
    /\ variant = "gpumon"
    /\ pc = "query"
    /\ vnic_ids \in BOOLEAN
    /\ response \in Responses
    /\ datapoints \in SeqsUpTo(Datapoints, MaxPoints)
    /\ Unbound

\* network = oci_sum_packets_last_5m(mon_query, COMPARTMENT_ID, vnic_ids)
QueryNetwork ==
    /\ pc = "query"
    /\ pc' = "done"
    /\ network' = oci_sum_packets_last_5m(vnic_ids,
                       [kind |-> response, sum |-> sum_datapoints(datapoints)])
    /\ UNCHANGED <<variant, raised, ticks, config, nvml, cpu_state,
                   alarm_pilot_light, network_tripped, seconds, net_failed,
                   notified, posts, delivery, total_gpu_util, gpu_failed,
                   log_lines, query_input, shadow, twin>>

NextQuery == QueryNetwork

SpecQuery == InitQuery /\ [][NextQuery]_vars

(***************************************************************************)
(* Sustained idleness.  The loop has been running below the backoff, so the *)
(* light is OFF and nothing was notified, and the windows hold whatever the *)
(* earlier iterations left; from here on every iteration finds every core   *)
(* at or under the CPU threshold, the GPUs at their threshold, no exception *)
(* and elapsed = backoff.                                                   *)
(***************************************************************************)
\* the samples an earlier iteration may have left in a window
PastSamples(thr) == {thr - 2, thr + 2}

\* psutil.cpu_percent(percpu=True) with every core at one level <= threshold
IdleOutcomes(thr) ==
    {[ok |-> TRUE, samples |-> [c \in Cores |-> l]] : l \in {thr - 2, thr}}

IdleReadings(d) == {[i \in 1..d |-> AtThreshold]}

NoHandleFault == {[at |-> "none", dev |-> 0]}

InitIdle ==
    /\ variant \in {"cpumon", "gpumon"}
    /\ pc = "loop"
    /\ raised = "none"
    /\ ticks = 0
    /\ policy \in {"STANDARD", "SEVERE"}
    /\ RESTART_BACKOFF = backoff_of(policy)
    /\ THRESHOLD_PERCENTAGE = cpu_threshold_of(policy)
    /\ NETWORK_THRESHOLD = network_threshold_of(policy)
    /\ team_webhook = FALSE
    /\ mon_query = IF variant = "gpumon" THEN "tuple" ELSE "none"
    /\ vnic_ids \in (IF variant = "gpumon" THEN BOOLEAN ELSE {FALSE})
    /\ nvml = IF variant = "gpumon" THEN "initialised" ELSE "unloaded"
    /\ deviceCount \in (IF variant = "gpumon" THEN 0..MaxDevices ELSE {0})
    /\ \E w \in SeqsUpTo(PastSamples(THRESHOLD_PERCENTAGE), WindowOf(variant)) :
        /\ core_utilization_cache = [c \in Cores |-> w]
        /\ per_core = IF w = <<>> THEN <<>> ELSE [c \in Cores |-> w[Len(w)]]
        /\ per_core_bound = (w # <<>>)
        /\ avg_util = IF w = <<>> THEN <<>>
                      ELSE calc_avg_core_utilization([c \in Cores |-> w])
        /\ cpu_util_tripped =
               /\ w # <<>>
               /\ any_above(calc_avg_core_utilization([c \in Cores |-> w]),
                            THRESHOLD_PERCENTAGE)
        /\ network_tripped = IF w = <<>> THEN 0 ELSE 1
        /\ seconds = IF w = <<>> THEN 0 ELSE RESTART_BACKOFF - 1
        /\ network = IF variant = "gpumon" THEN 0
                     ELSE IF w = <<>> THEN NETWORK_LAST_INITIAL
                     ELSE NETWORK_PLACEHOLDER
        /\ net_failed = (variant = "gpumon" /\ w # <<>>)
        /\ log_lines = IF w = <<>> THEN 0
                       ELSE IF variant = "gpumon" THEN deviceCount ELSE 1
    /\ alarm_pilot_light = 0
    /\ total_gpu_util = 0
    /\ notified = <<>>
    /\ posts = 0
    /\ delivery = "none"
    /\ cpu_failed = FALSE
    /\ gpu_failed = FALSE
    /\ response = "none"
    /\ datapoints = <<>>
    /\ shadow_tripped = 1
    /\ shadow_alarm = 0
    /\ shadow_notified = <<>>
    /\ twin = [cache |-> [i \in Cores |-> <<>>], alarm |-> 0, tripped |-> 0,
               notified |-> <<>>]

IdleTickCpumon ==
    /\ IterateCpumon(IdleOutcomes(THRESHOLD_PERCENTAGE), {RESTART_BACKOFF})
    /\ UNCHANGED twin

IdleTickGpumon ==
    /\ IterateGpumon(IdleOutcomes(THRESHOLD_PERCENTAGE),
                     IdleReadings(deviceCount), NoHandleFault,
                     {RESTART_BACKOFF})
    /\ UNCHANGED twin

NextIdle == IdleTickCpumon \/ IdleTickGpumon

SpecIdle == InitIdle /\ [][NextIdle]_vars

(***************************************************************************)
(* The two programs side by side.  cpumon runs in the variables of the      *)
(* model; twin holds the loop variables of a gpumon started under the same  *)
(* policy, which is given the sampler outcome and the elapsed time of every *)
(* cpumon iteration and whose one GPU reads its threshold, an idle reading. *)
(***************************************************************************)
\* gpumon.py:379-430 on the twin's variables; its network value is 0
twin_iteration(t, out, el) ==
    LET cpu == cpu_block("gpumon", t.cache, <<>>, TRUE, out,
                         THRESHOLD_PERCENTAGE)
        net == oci_sum_packets_last_5m(FALSE, [kind |-> "data", sum |-> 0])
        idle == gpumon_idle(getUtilization(AtThreshold), 1, cpu.tripped, net,
                            NETWORK_THRESHOLD)
        lp == latch_and_pilot(t.alarm, t.tripped, net, NETWORK_THRESHOLD, el,
                              RESTART_BACKOFF, idle)
    IN  [cache |-> cpu.cache, alarm |-> lp.pl.alarm, tripped |-> lp.tripped,
         notified |-> IF lp.pl.note = "none" THEN t.notified
                      ELSE Append(t.notified, lp.pl.note)]

InitBoth == Init /\ variant = "cpumon"

TickBoth ==
    \E out \in CpuOutcomes(THRESHOLD_PERCENTAGE),
       el \in Elapsed(RESTART_BACKOFF) :
        /\ IterateCpumon({out}, {el})
        /\ twin' = twin_iteration(twin, out, el)

NextBoth == StartCpumon \/ TickBoth

SpecBoth == InitBoth /\ [][NextBoth]_vars

(***************************************************************************)
(* Vocabulary of the properties.                                           *)
(***************************************************************************)
\* The last iteration reached its pilot-light block: the only exception that
\* leaves an iteration before it is the one of the GPU sampling loop.
Evaluated == ticks > 0 /\ raised # "NVMLError_sample"

\* This step is an iteration that reached its pilot-light block.
TickEvaluated == ticks' = ticks + 1 /\ raised' # "NVMLError_sample"

\* Every per-core average the iteration computed is within the threshold.
CpuIdle ==
    \A i \in DOMAIN avg_util :
        avg_util[i].num <= THRESHOLD_PERCENTAGE * avg_util[i].den

NetworkIdle == network <= NETWORK_THRESHOLD

\* round(average GPU utilization) is within the threshold; cpumon has no GPU
\* sub-verdict.
GpuIdle ==
    variant = "gpumon" => PyRound(total_gpu_util, deviceCount) <= GPU_THRESHOLD

\* The composite idle verdict of the last iteration, from the values it
\* computed.
CompositeIdle == CpuIdle /\ NetworkIdle /\ GpuIdle

LastOf(s) == s[Len(s)]

(***************************************************************************)
(* C1. Hysteresis idempotence: an iteration with elapsed >= backoff and an  *)
(* idle composite verdict turns the light ON with exactly one ON message    *)
(* when it was OFF, and when it was already ON it leaves it ON, builds no   *)
(* message and posts nothing.                                               *)
(***************************************************************************)
C1_HysteresisIdempotence ==
    [][(TickEvaluated /\ seconds' >= RESTART_BACKOFF' /\ CompositeIdle')
        => IF alarm_pilot_light = 0
           THEN /\ alarm_pilot_light' = 1
                /\ notified' = Append(notified, "ON")
                /\ posts' <= posts + 1
           ELSE /\ alarm_pilot_light' = 1
                /\ notified' = notified
                /\ posts' = posts]_vars

\* An idle iteration found the light ON and left it so: one ON message in
\* all after at least two iterations.
C1_Witness ==
    /\ Evaluated
    /\ pc = "loop"
    /\ ticks >= 2
    /\ seconds >= RESTART_BACKOFF
    /\ CompositeIdle
    /\ alarm_pilot_light = 1
    /\ notified = <<"ON">>
    /\ delivery = "none"

(***************************************************************************)
(* C2. Backoff gate: an iteration with elapsed < backoff ends with the      *)
(* light OFF whatever the verdicts and the previous state; an iteration     *)
(* with elapsed = backoff exactly, the light OFF and an idle composite      *)
(* verdict turns it ON with its message.                                    *)
(***************************************************************************)
C2_BackoffGate ==
    [][TickEvaluated
        => /\ (seconds' < RESTART_BACKOFF') => alarm_pilot_light' = 0
           /\ (/\ seconds' = RESTART_BACKOFF'
               /\ alarm_pilot_light = 0
               /\ CompositeIdle')
              => /\ alarm_pilot_light' = 1
                 /\ notified' = Append(notified, "ON")]_vars

\* The ON transition fired in an iteration whose elapsed time is the backoff
\* exactly.
C2_Witness ==
    /\ Evaluated
    /\ seconds = RESTART_BACKOFF
    /\ alarm_pilot_light = 1
    /\ delivery # "none"
    /\ notified # <<>>
    /\ LastOf(notified) = "ON"

(***************************************************************************)
(* C3. Every ON -> OFF change of the light builds one OFF message in the    *)
(* same iteration.                                                          *)
(***************************************************************************)
C3_OffAlwaysNotified ==
    [][(alarm_pilot_light = 1 /\ alarm_pilot_light' = 0)
        => notified' = Append(notified, "OFF")]_vars

(***************************************************************************)
(* C4. After every iteration the light is ON if and only if elapsed >=      *)
(* backoff and the composite verdict of that iteration is idle, whatever    *)
(* the light was before.                                                    *)
(***************************************************************************)
C4_PilotIffIdle ==
    Evaluated =>
        (alarm_pilot_light = 1 <=> (seconds >= RESTART_BACKOFF /\ CompositeIdle))

\* The light followed the verdict three iterations in a row: ON, OFF, ON.
C4_Witness ==
    /\ Evaluated
    /\ ticks = 3
    /\ notified = <<"ON", "OFF", "ON">>
    /\ alarm_pilot_light = 1

(***************************************************************************)
(* C5. An iteration whose CPU sampler raised, or whose windows hold no      *)
(* sample, does not end with the light ON.                                  *)
(***************************************************************************)
C5_CpuFailureIsBusy ==
    (Evaluated /\ (cpu_failed \/ \A c \in Cores : core_utilization_cache[c] = <<>>))
        => alarm_pilot_light = 0

(***************************************************************************)
(* C6. An iteration in which a GPU utilization read failed and was replaced *)
(* by the zero reading does not end with the light ON (the CPU sampler      *)
(* having answered).                                                        *)
(***************************************************************************)
C6_FailedGpuReadIsBusy ==
    (Evaluated /\ gpu_failed /\ ~cpu_failed) => alarm_pilot_light = 0

(***************************************************************************)
(* C7. An iteration that obtained no network reading does not end with the  *)
(* light ON (the CPU sampler and every GPU read having answered).           *)
(***************************************************************************)
C7_NetworkUnavailableIsBusy ==
    (Evaluated /\ net_failed /\ ~cpu_failed /\ ~gpu_failed)
        => alarm_pilot_light = 0

(***************************************************************************)
(* C8. No iteration ends the loop: after every iteration the program is     *)
(* still in its loop.                                                       *)
(***************************************************************************)
C8_TickErrorsNeverFatal ==
    [][(pc = "loop" /\ ticks' = ticks + 1) => pc' = "loop"]_vars

(***************************************************************************)
(* C9. A notification failure does not roll the transition back and is not  *)
(* retried: an iteration posts at most once and only for a transition it    *)
(* made; every transition, whatever happened to earlier deliveries, posts   *)
(* once when a webhook is configured; and after a transition the light has  *)
(* the value of the message, whatever the outcome of the delivery.          *)
(***************************************************************************)
C9_NoRollbackNoRetry ==
    [][(ticks' = ticks + 1)
        => /\ posts' <= posts + (IF notified' # notified THEN 1 ELSE 0)
           /\ (notified' # notified /\ team_webhook) => posts' = posts + 1
           /\ (notified' # notified)
              => /\ Len(notified') = Len(notified) + 1
                 /\ alarm_pilot_light' =
                        (IF LastOf(notified') = "ON" THEN 1 ELSE 0)
                 /\ alarm_pilot_light' # alarm_pilot_light
           /\ posts' <= Len(notified')]_vars

\* After a first transition, the opposite one was made and its only post
\* failed: the light is OFF all the same.
C9_Witness ==
    /\ notified = <<"ON", "OFF">>
    /\ posts = 2
    /\ delivery \in {"non200", "exception"}
    /\ alarm_pilot_light = 0
    /\ pc = "loop"

(***************************************************************************)
(* C10. CPU idle conjunction: cpu_util_tripped is false if and only if      *)
(* every per-core average is <= the CPU threshold, an average equal to the  *)
(* threshold being idle; when the sampler answered, these are the averages  *)
(* of the retained windows.                                                 *)
(***************************************************************************)
C10_CpuIdleConjunction ==
    ticks > 0 =>
        /\ ~cpu_util_tripped <=> CpuIdle
        /\ ~cpu_failed =>
              (cpu_util_tripped <=>
                  \E c \in Cores :
                      SeqSum(core_utilization_cache[c]) >
                          THRESHOLD_PERCENTAGE * Len(core_utilization_cache[c]))

\* One core's average is the threshold exactly, no core is over it, and the
\* verdict is idle.
C10_Witness ==
    /\ ticks > 0
    /\ ~cpu_failed
    /\ ~cpu_util_tripped
    /\ \E i \in DOMAIN avg_util :
          /\ avg_util[i].den > 1
          /\ avg_util[i].num = THRESHOLD_PERCENTAGE * avg_util[i].den

(***************************************************************************)
(* C11. Window bound: after every iteration each per-core window holds at   *)
(* most capacity = duration/interval samples.                               *)
(***************************************************************************)
Capacity == CACHE_DURATION \div SLEEP_INTERVAL

C11_WindowBound ==
    \A c \in Cores : Len(core_utilization_cache[c]) <= Capacity

(***************************************************************************)
(* C12. Every iteration that ends appends exactly one log line, whatever    *)
(* the number of GPU devices.                                               *)
(***************************************************************************)
C12_OneRecordPerTick ==
    (ticks > 0 /\ pc = "loop") => log_lines = 1

(***************************************************************************)
(* C13. A failed metadata request at startup never ends the program.        *)
(***************************************************************************)
C13_MetadataFailureNotFatal ==
    ~(pc = "dead" /\ raised = "RequestException")

(***************************************************************************)
(* C14. The absence of the NVML binding never ends the program: the loop    *)
(* runs without the GPU branch.                                             *)
(***************************************************************************)
C14_NoBindingNotFatal ==
    ~(pc = "dead" /\ raised = "NameError")

(***************************************************************************)
(* C15. Average correctness: the per-core average an iteration computed is  *)
(* the arithmetic mean, sum divided by count, of exactly the samples the    *)
(* core's window retains; the average of an empty window, as every window   *)
(* is when the loop is entered, is 0.                                       *)
(***************************************************************************)
C15_AverageIsMean ==
    /\ (ticks > 0 /\ ~cpu_failed) =>
          \A c \in Cores :
              /\ Len(core_utilization_cache[c]) > 0
              /\ avg_util[c].den > 0
              /\ avg_util[c].num * Len(core_utilization_cache[c])
                     = SeqSum(core_utilization_cache[c]) * avg_util[c].den
    /\ (pc = "loop" /\ ticks = 0) =>
          \A c \in Cores :
              /\ core_utilization_cache[c] = <<>>
              /\ calc_avg_core_utilization(core_utilization_cache)[c].num = 0

\* a window of two different samples was averaged
C15_Witness ==
    /\ ticks > 0
    /\ ~cpu_failed
    /\ \E c \in Cores :
          /\ Len(core_utilization_cache[c]) = 2
          /\ core_utilization_cache[c][1] # core_utilization_cache[c][2]
          /\ avg_util[c].den = 2

(***************************************************************************)
(* C16. network_tripped is a one-shot latch: 0 until the first iteration    *)
(* is evaluated, 1 after the first iteration whose network value is <= the  *)
(* network threshold and not before, and once 1 it stays 1 in every later   *)
(* step, whatever the network value.                                        *)
(***************************************************************************)
C16_OneShotLatch ==
    [][ /\ (ticks = 0 => network_tripped = 0)
        /\ (network_tripped = 1 => network_tripped' = 1)
        /\ (TickEvaluated /\ network' <= NETWORK_THRESHOLD)
              => network_tripped' = 1
        /\ (TickEvaluated /\ network_tripped = 0
                /\ network' > NETWORK_THRESHOLD)
              => network_tripped' = 0
        /\ \A n \in {0, NETWORK_THRESHOLD, NETWORK_THRESHOLD + 1} :
              trip_network(1, n, NETWORK_THRESHOLD) = 1 ]_vars

\* the latch was set and a later iteration was evaluated with it set
C16_Witness ==
    /\ ticks >= 2
    /\ Evaluated
    /\ network <= NETWORK_THRESHOLD
    /\ network_tripped = 1

(***************************************************************************)
(* C17. The backoff and the thresholds are bound once, from the policy:     *)
(* SEVERE binds the SEVERE values, every other policy value the default     *)
(* ones, and no step after startup changes the policy or any of them.       *)
(***************************************************************************)
Thresholds == <<RESTART_BACKOFF, THRESHOLD_PERCENTAGE, NETWORK_THRESHOLD>>

C17_ThresholdsBoundOnce ==
    [][ /\ policy' = "SEVERE" =>
              Thresholds' = <<RESTART_BACKOFF_SEVERE,
                              THRESHOLD_PERCENTAGE_SEVERE,
                              NETWORK_THRESHOLD_SEVERE>>
        /\ policy' \notin {"none", "SEVERE"} =>
              Thresholds' = <<RESTART_BACKOFF_DEFAULT,
                              THRESHOLD_PERCENTAGE_DEFAULT,
                              NETWORK_THRESHOLD_DEFAULT>>
        /\ pc # "start" => UNCHANGED <<policy, Thresholds>> ]_vars

\* an iteration ran under a policy value that is neither STANDARD nor SEVERE
C17_Witness ==
    /\ ticks > 0
    /\ policy = "OTHER"
    /\ Thresholds = <<RESTART_BACKOFF_DEFAULT, THRESHOLD_PERCENTAGE_DEFAULT,
                      NETWORK_THRESHOLD_DEFAULT>>

(***************************************************************************)
(* C18. GPU idle verdict.  With the CPU and network sub-verdicts idle and   *)
(* elapsed >= backoff the light shows the GPU sub-verdict of the iteration. *)
(***************************************************************************)
GpuVerdictShown ==
    /\ variant = "gpumon"
    /\ Evaluated
    /\ CpuIdle
    /\ NetworkIdle
    /\ seconds >= RESTART_BACKOFF

\* The integer nearest to num/den, a tie going to the integer above.
RoundHalfUp(num, den) ==
    IF den = 0 THEN 0 ELSE (2 * num + den) \div (2 * den)

\* The integer nearest to num/den, a tie going to the even integer.
RoundHalfEven(num, den) ==
    IF den = 0 THEN 0
    ELSE CHOOSE n \in 0..(num + 1) :
            /\ 2 * num - den <= 2 * n * den
            /\ 2 * n * den <= 2 * num + den
            /\ (2 * n * den \in {2 * num - den, 2 * num + den}) => n % 2 = 0

Retained == SelectSeq(datapoints, LAMBDA dp : dp.present)

\* newest.value - oldest.value of the retained window, clamped to >= 0
ClampedDelta ==
    IF Retained = <<>> THEN 0
    ELSE Max(0, Retained[Len(Retained)].value - Retained[1].value)

C20_LatchInert ==
    /\ ticks = 0 => network_tripped # shadow_tripped
    /\ shadow_alarm = alarm_pilot_light
    /\ shadow_notified = notified

\* the first iteration, entered with different latches, turned the light ON
\* in both runs
C20_Witness ==
    /\ ticks = 1
    /\ Evaluated
    /\ shadow_tripped = 1
    /\ network_tripped = 1
    /\ shadow_alarm = 1
    /\ alarm_pilot_light = 1
    /\ shadow_notified = <<"ON">>

(***************************************************************************)
(* C21. The driver handle is scoped around the loop: whenever main() has    *)
(* been left after nvmlInit() succeeded, nvmlShutdown() has been called.    *)
(***************************************************************************)
C21_ShutdownOnEveryExit ==
    pc = "dead" => nvml # "initialised"

(***************************************************************************)
(* C22. Alternation under non-decreasing elapsed time: the notifications    *)
(* built so far start with ON, no two consecutive ones have the same        *)
(* direction, and ON messages minus OFF messages is the pilot-light state;  *)
(* an iteration whose elapsed time is not below the previous one's keeps    *)
(* this, so it holds after every iteration of a run whose elapsed time      *)
(* never decreases.                                                         *)
(***************************************************************************)
CountOf(s, d) == Cardinality({i \in DOMAIN s : s[i] = d})

Alternating ==
    /\ notified # <<>> => notified[1] = "ON"
    /\ \A i \in 1..(Len(notified) - 1) : notified[i] # notified[i + 1]
    /\ CountOf(notified, "ON") - CountOf(notified, "OFF") = alarm_pilot_light

C22_AlternationUnderMonotoneElapsed ==
    [][ /\ ticks = 0 => Alternating
        /\ (Alternating /\ seconds' >= seconds) => Alternating' ]_vars

\* three iterations at elapsed = backoff: ON, OFF, ON
C22_Witness ==
    /\ ticks = 3
    /\ notified = <<"ON", "OFF", "ON">>
    /\ alarm_pilot_light = 1

(***************************************************************************)
(* C23. Bounded response to sustained idleness: whatever the windows held,  *)
(* once capacity = duration/interval iterations have followed the first     *)
(* idle one, the pilot light is ON.                                         *)
(***************************************************************************)
C23_OnWithinCapacity ==
    ticks >= Capacity + 1 => alarm_pilot_light = 1

(***************************************************************************)
(* C24. The two variants are one alert state machine: under the same        *)
(* policy and the same inputs in every iteration, the GPU being idle, they  *)
(* have the same pilot-light state and have built the same notifications    *)
(* after every iteration.                                                   *)
(***************************************************************************)
C24_VariantsAgree ==
    /\ twin.alarm = alarm_pilot_light
    /\ twin.notified = notified

====
